---------------------------- MODULE Spec2Model ----------------------------
(***************************************************************************)
(* Receipt extraction engine of ocr-service/app.py (the /ocr handler and   *)
(* the helpers it calls), as a state machine over tokenised text.          *)
(*                                                                         *)
(* Text.  A line is a sequence of tokens that the receipt separates by     *)
(* blanks.  A token is a record [k, s, c, i, f, d]:                        *)
(*   k = "w"  a word of letters: s its letters in lower case, c its casing *)
(*            ("U" upper, "L" lower, "T" title)                            *)
(*   k = "n"  a number: i its integer part, d its number of decimals       *)
(*            (0, 1 or 2), f the decimals read as an integer               *)
(*   k = "c"  a currency symbol: s is "$", "Rs" (any casing, with or       *)
(*            without its dot), "rupee", "pound" or "euro"                 *)
(*   k = "p"  punctuation: s is "@", "#", ":", "-", ".", "***", ...        *)
(*   k = "d"  a slash-separated date mm/dd/yyyy: i its year                *)
(*   k = "r"  what a substitution leaves of a number it cut in two         *)
(* A regular expression of the source is the predicate (or the rewriting)  *)
(* it induces on token sequences; \s* between two parts of a pattern is    *)
(* adjacency of tokens.  Money is counted in cents (float("3.99") = 399).  *)
(* Words of the vocabulary do not contain the letters "rs" (which the      *)
(* case-insensitive CURRENCY_RE would read as a currency token).           *)
(***************************************************************************)
EXTENDS Integers, Sequences, FiniteSets, TLC

VARIABLES raw_text, lines, store, merchant, purchase_date, total, currency,
          subtotal, tax, savings, prov, item_lines, pos,
          pending_name, pending_price, pending_qty, pending_src,
          items, item_src, parsed_items, item_count, pc

vars == <<raw_text, lines, store, merchant, purchase_date, total, currency,
          subtotal, tax, savings, prov, item_lines, pos,
          pending_name, pending_price, pending_qty, pending_src,
          items, item_src, parsed_items, item_count, pc>>

\* Python's None, for the optional amounts (cents) and the optional strings.
None == -1
NoStr == "None"

---------------------------------------------------------------------------
\* Tokens

W(s, c) == [k |-> "w", s |-> s, c |-> c, i |-> 0, f |-> 0, d |-> 0]
U(s) == W(s, "U")
N(i) == [k |-> "n", s |-> "", c |-> "", i |-> i, f |-> 0, d |-> 0]
D(i, f) == [k |-> "n", s |-> "", c |-> "", i |-> i, f |-> f, d |-> 2]
D1(i, f) == [k |-> "n", s |-> "", c |-> "", i |-> i, f |-> f, d |-> 1]
Cur(s) == [k |-> "c", s |-> s, c |-> "", i |-> 0, f |-> 0, d |-> 0]
P(s) == [k |-> "p", s |-> s, c |-> "", i |-> 0, f |-> 0, d |-> 0]
Date(y) == [k |-> "d", s |-> "mm/dd/", c |-> "", i |-> y, f |-> 0, d |-> 0]

RECURSIVE Digits(_)
\* The number of decimal digits of the natural number n.
Digits(n) == IF n < 10 THEN 1 ELSE 1 + Digits(n \div 10)

RECURSIVE Pow10(_)
Pow10(n) == IF n = 0 THEN 1 ELSE 10 * Pow10(n - 1)

\* float() of a matched number, in cents.
Cents(t) == t.i * 100 + (IF t.d = 2 THEN t.f ELSE IF t.d = 1 THEN t.f * 10 ELSE 0)

\* len() of a token's text.
CharLen(t) ==
  CASE t.k = "w" -> Len(t.s)
    [] t.k = "n" -> Digits(t.i) + (IF t.d = 0 THEN 0 ELSE 1 + t.d)
    [] t.k = "c" -> IF t.s = "Rs" THEN 2 ELSE 1
    [] t.k = "p" -> Len(t.s)
    [] t.k = "d" -> (IF t.d = 1 THEN 5 ELSE 6) + (IF t.i < 0 THEN 0 ELSE Digits(t.i))
    [] OTHER     -> (IF t.i < 0 THEN 0 ELSE Digits(t.i)) + 1 + t.d

\* sum(1 for c in text if c.isalpha()) of a token's text.
AlphaLen(t) ==
  CASE t.k = "w" -> Len(t.s)
    [] t.k = "c" -> IF t.s = "Rs" THEN 2 ELSE 0
    [] OTHER     -> 0

RECURSIVE TextChars(_)
TextChars(ts) == IF ts = <<>> THEN 0 ELSE CharLen(Head(ts)) + TextChars(Tail(ts))

RECURSIVE AlphaCount(_)
\* sum(1 for c in text if c.isalpha())
AlphaCount(ts) == IF ts = <<>> THEN 0 ELSE AlphaLen(Head(ts)) + AlphaCount(Tail(ts))

\* len() of the text of a token sequence written with single blanks.
TextLen(ts) == IF ts = <<>> THEN 0 ELSE TextChars(ts) + Len(ts) - 1

\* What a pattern sees of a token: a word case-insensitively, a number as a digit.
Key(t) ==
  CASE t.k = "w" -> t.s
    [] t.k = "n" -> "<num>"
    [] t.k = "c" -> "<cur>"
    [] t.k = "d" -> "<date>"
    [] t.k = "r" -> "<num>"
    [] OTHER     -> t.s

NUM == {"<num>"}

\* pattern.search(text): pat is a sequence of sets of keys, matched on adjacent tokens.
Match(ts, pat) ==
  \E a \in 1..(Len(ts) - Len(pat) + 1) :
      \A j \in 1..Len(pat) : Key(ts[a + j - 1]) \in pat[j]

\* A case-sensitive upper-case word, as \bGST\b without re.I.
HasUpper(ts, w) == \E a \in 1..Len(ts) : ts[a].k = "w" /\ ts[a].s = w /\ ts[a].c = "U"

RECURSIVE Flatten(_)
\* "\n".join(lines): a line break is white space to every pattern.
Flatten(ls) == IF ls = <<>> THEN <<>> ELSE Head(ls) \o Flatten(Tail(ls))

---------------------------------------------------------------------------
\* Keyword tables (app.py 251-287): pattern number p of each list, on a line.

NTotalKw == 6
TOTAL_KEYWORDS(p, ts) ==
  CASE p = 1 -> Match(ts, <<{"grand"}, {"total"}>>)
    [] p = 2 -> Match(ts, <<{"net"}, {"amount", "total", "payable"}>>)
    [] p = 3 -> Match(ts, <<{"total"}>>)
    [] p = 4 -> Match(ts, <<{"amount"}, {"due", "payable", "tendered"}>>)
    [] p = 5 -> Match(ts, <<{"balance"}, {"due"}>>)
    [] OTHER -> Match(ts, <<{"payable"}>>)

NSubtotalKw == 2
SUBTOTAL_KEYWORDS(p, ts) ==
  CASE p = 1 -> \/ Match(ts, <<{"subtotal"}>>)
                \/ Match(ts, <<{"sub"}, {"total"}>>)
                \/ Match(ts, <<{"sub"}, {"-"}, {"total"}>>)
    [] OTHER -> Match(ts, <<{"merch", "merchandise"}, {"total", "subtotal"}>>)

NTaxKw == 8
TAX_KEYWORDS(p, ts) ==
  CASE p = 1 -> Match(ts, <<{"tax"}>>)
    [] p = 2 -> Match(ts, <<{"state"}, {"tax"}>>)
    [] p = 3 -> Match(ts, <<{"local"}, {"tax"}>>)
    [] p = 4 -> Match(ts, <<{"tax"}, NUM>>)
    [] p = 5 -> HasUpper(ts, "gst")
    [] p = 6 -> HasUpper(ts, "sgst")
    [] p = 7 -> HasUpper(ts, "cgst")
    [] OTHER -> HasUpper(ts, "igst")

NSavingsKw == 10
SAVINGS_KEYWORDS(p, ts) ==
  CASE p = 1 -> Match(ts, <<{"save", "saved"}>>)
    [] p = 2 -> Match(ts, <<{"saving", "savings"}>>)
    [] p = 3 -> Match(ts, <<{"discount"}>>)
    [] p = 4 -> Match(ts, <<{"coupon"}>>)
    [] p = 5 -> Match(ts, <<{"rollback"}>>)
    [] p = 6 -> Match(ts, <<{"markdown"}>>)
    [] p = 7 -> Match(ts, <<{"price"}, {"cut"}>>)
    [] p = 8 -> Match(ts, <<{"manager"}, {"special"}>>)
    [] p = 9 -> Match(ts, <<{"instant"}, {"savings"}>>)
    [] OTHER -> Match(ts, <<{"reward", "rewards", "point", "points"},
                            {"earned", "applied", "redeemed"}>>)

\* any(kw.search(line) for kw in <list>)
AnyTotalKw(ts) == \E p \in 1..NTotalKw : TOTAL_KEYWORDS(p, ts)
AnySubtotalKw(ts) == \E p \in 1..NSubtotalKw : SUBTOTAL_KEYWORDS(p, ts)
AnyTaxKw(ts) == \E p \in 1..NTaxKw : TAX_KEYWORDS(p, ts)
AnySavingsKw(ts) == \E p \in 1..NSavingsKw : SAVINGS_KEYWORDS(p, ts)

TOTAL_ITEM_COUNT_RE(ts) ==
  \/ Match(ts, <<{"total"}, {"item", "items", "qty", "quantitie", "quantities"}>>)
  \/ Match(ts, <<{"item", "items", "qty"}, {"sold", "total", "count"}>>)

---------------------------------------------------------------------------
\* Prices (app.py 83-101, 492-527)

Max(S) == CHOOSE x \in S : \A y \in S : y <= x
Min(S) == CHOOSE x \in S : \A y \in S : x <= y

\* The token at a + 1 of a match of (?:Rs\.?|rupee|\$|pound|euro)\s*(\d{1,6}(?:\.\d{1,2})?)
\* that starts at token a.
CurrencyAt(ts, a) == a + 1 <= Len(ts) /\ ts[a].k = "c" /\ ts[a + 1].k = "n"

\* float() of the group CURRENCY_PRICE_RE captures: at most 6 integer digits, and
\* the decimals only when the integer part ended.
CurCapture(t) ==
  IF Digits(t.i) <= 6 THEN Cents(t) ELSE (t.i \div Pow10(Digits(t.i) - 6)) * 100

\* A match of \b(\d{1,6}\.\d{2})\b at token a.
DecimalAt(ts, a) == ts[a].k = "n" /\ ts[a].d = 2 /\ Digits(ts[a].i) <= 6

_find_best_price(ts) ==
  LET cm == {a \in 1..Len(ts) : CurrencyAt(ts, a)}
      dm == {a \in 1..Len(ts) : DecimalAt(ts, a)}
  IN  IF cm # {} THEN CurCapture(ts[Max(cm) + 1])
      ELSE IF dm # {} THEN Cents(ts[Max(dm)])
      ELSE None

\* CURRENCY_RE.search(text).group(1), NoStr when there is no match.
CurrencySearch(ts) ==
  LET cs == {a \in 1..Len(ts) : ts[a].k = "c"}
  IN  IF cs = {} THEN NoStr ELSE ts[CHOOSE a \in cs : \A b \in cs : a <= b].s

\* sym.lower().startswith("rs") -> the rupee sign
NormSym(sym) == IF sym = "Rs" THEN "rupee" ELSE sym

---------------------------------------------------------------------------
\* Noise (app.py 198-246, 409-420)

LongDigits(ts, n) == \E a \in 1..Len(ts) : ts[a].k = "n" /\ Digits(ts[a].i) >= n

NOISE_PATTERNS(ts) ==
  \/ LongDigits(ts, 10)
  \/ Match(ts, <<{"gst", "gstin"}, NUM>>) \/ Match(ts, <<{"gst", "gstin"}, {":"}, NUM>>)
  \/ Match(ts, <<{"fssai"}>>)
  \/ Match(ts, <<{"cin"}, NUM>>) \/ Match(ts, <<{"cin"}, {":"}, NUM>>)
  \/ Match(ts, <<{"thank"}, {"you"}>>) \/ Match(ts, <<{"have"}, {"a"}, {"nice"}>>)
  \/ (Len(ts) = 1 /\ ts[1].k = "p" /\ ts[1].s \in {"*", "**", "***", "---", "===", "___", "###"})
  \/ Match(ts, <<{"www"}, {"."}>>) \/ Match(ts, <<{"."}, {"com", "org"}>>)
  \/ Match(ts, <<{"tax"}, {"invoice", "receipt"}>>)
  \/ Match(ts, <<{"bill", "invoice"}, {"no", "number"}>>)
  \/ Match(ts, <<{"bill", "invoice"}, {"#"}, NUM>>)
  \/ Match(ts, <<{"original"}, {"for", "copy"}>>)
  \/ Match(ts, <<{"store", "str"}, {"#", "no", "number"}, NUM>>)
  \/ Match(ts, <<{"cashier", "operator", "register", "terminal"}>>)
  \/ Match(ts, <<{"member", "membership"}, {"no", "id"}>>)
  \/ Match(ts, <<{"member", "membership"}, {"#"}, NUM>>)
  \/ Match(ts, <<{"ref"}, {"no"}>>) \/ Match(ts, <<{"ref"}, {"#"}, NUM>>)
  \/ Match(ts, <<{"visa", "mastercard", "amex", "discover", "debit", "credit"}>>)
  \/ Match(ts, <<{"change"}, {"due"}>>)
  \/ Match(ts, <<{"return", "exchange"}, {"policy"}>>)
  \/ Match(ts, <<{"valid"}, {"thru", "through", "until"}>>)
  \/ Match(ts, <<{"approval"}, {"code", "#"}>>)
  \/ Match(ts, <<{"tc", "transaction"}, NUM>>)
  \/ Match(ts, <<{"tc", "transaction"}, {"#"}, NUM>>)

COSTCO_NOISE(ts) ==
  \/ (Len(ts) = 1 /\ ts[1].k = "n" /\ ts[1].d = 0 /\ Digits(ts[1].i) = 7)
  \/ Match(ts, <<{"member"}, NUM>>) \/ Match(ts, <<{"member"}, {"#"}, NUM>>)
  \/ Match(ts, <<{"whse", "warehouse"}>>)
  \/ Match(ts, <<{"instant"}, {"savings"}>>)

WALMART_NOISE(ts) ==
  \/ Match(ts, <<{"save"}, {"money"}>>)
  \/ Match(ts, <<{"live"}, {"better"}>>)
  \/ Match(ts, <<{"manager"}>>)
  \/ Match(ts, <<{"promo"}>>)
  \/ Match(ts, <<{"price"}, {"match"}>>)
  \/ Match(ts, <<{"sc", "snap"}, {"eligible", "ebt"}>>)

TARGET_NOISE(ts) ==
  \/ Match(ts, <<{"expect"}, {"more"}>>)
  \/ Match(ts, <<{"pay"}, {"less"}>>)
  \/ Match(ts, <<{"redcard"}>>)
  \/ Match(ts, <<{"circle"}, {"offer", "earning", "earnings", "saving", "savings"}>>)
  \/ Match(ts, <<{"dpci"}>>)

_is_noise(ts, st) ==
  \/ NOISE_PATTERNS(ts)
  \/ (st = "costco" /\ COSTCO_NOISE(ts))
  \/ (st = "walmart" /\ WALMART_NOISE(ts))
  \/ (st = "target" /\ TARGET_NOISE(ts))

---------------------------------------------------------------------------
\* Store detection (app.py 144-193, 393-402)

StoreOrder == <<"costco", "walmart", "target", "indian_grocery", "kroger",
                "aldi", "trader_joes", "whole_foods", "heb">>

HeaderLines == 10

\* any(pat.search(text) for pat in STORE_PATTERNS[name])
STORE_PATTERNS(name, ts) ==
  CASE name = "costco" -> Match(ts, <<{"costco"}>>)
    [] name = "walmart" ->
         \/ Match(ts, <<{"walmart"}>>) \/ Match(ts, <<{"wal"}, {"mart"}>>)
         \/ Match(ts, <<{"wal"}, {"-"}, {"mart"}>>)
         \/ Match(ts, <<{"sams", "sam's"}, {"club"}>>)
    [] name = "target" -> Match(ts, <<{"target"}>>)
    [] name = "indian_grocery" ->
         \/ Match(ts, <<{"patel"}, {"brother"}>>)
         \/ Match(ts, <<{"india", "apna"}, {"bazaar", "bazar", "market"}>>)
         \/ Match(ts, <<{"subzi"}, {"mandi"}>>)
         \/ Match(ts, <<{"desi"}, {"bazaar", "bazar", "market", "store"}>>)
         \/ Match(ts, <<{"raj"}, {"store", "market", "grocery"}>>)
         \/ Match(ts, <<{"spice"}, {"bazaar", "house", "world", "land"}>>)
         \/ Match(ts, <<{"global"}, {"food", "foods", "market", "grocery"}>>)
         \/ Match(ts, <<{"cherian", "cherians", "deepam", "shaan", "swad", "namaste"}>>)
         \/ Match(ts, <<{"sri", "shri"}, {"krishna", "lakshmi", "ganesh"}>>)
         \/ HasUpper(ts, "mrp")
         \/ Match(ts, <<{"masala", "atta", "ghee", "paneer", "daal", "dal", "roti", "naan"}>>)
    [] name = "kroger" -> Match(ts, <<{"kroger", "ralphs", "ralph's", "frys", "fry's"}>>)
    [] name = "aldi" -> Match(ts, <<{"aldi"}>>)
    [] name = "trader_joes" ->
         \/ Match(ts, <<{"trader"}, {"joe", "joes", "joe's"}>>)
    [] name = "whole_foods" -> Match(ts, <<{"whole"}, {"food", "foods"}>>)
    [] OTHER ->
         \/ Match(ts, <<{"heb"}>>) \/ Match(ts, <<{"h"}, {"e"}, {"b"}>>)
         \/ Match(ts, <<{"h"}, {"-"}, {"e"}, {"-"}, {"b"}>>)

\* lines[:n]
Take(ls, n) == IF Len(ls) <= n THEN ls ELSE SubSeq(ls, 1, n)

\* A header that is the whole receipt.
WholeReceipt(ls) == ls

\* app.py 394: "\n".join(lines[:10])
Header(ls) == Take(ls, HeaderLines)

_detect_store(ls, raw) ==
  LET header == Flatten(Header(ls))
      hits == {n \in 1..Len(StoreOrder) : STORE_PATTERNS(StoreOrder[n], header)}
  IN  IF hits # {} THEN StoreOrder[CHOOSE n \in hits : \A m \in hits : n <= m]
      ELSE IF STORE_PATTERNS("indian_grocery", Flatten(raw)) THEN "indian_grocery"
      ELSE "generic"

---------------------------------------------------------------------------
\* Field extractors (app.py 423-430, 530-666).  An extractor's result is a record
\* [amt, kw, at]: the amount, the line whose keyword anchored it (0: none) and the
\* line the amount was read from (0: none); the program keeps amt only.

NoValue == [amt |-> None, kw |-> 0, at |-> 0]

LookAhead == 3

\* TOTAL_KEYWORDS + SUBTOTAL_KEYWORDS + TAX_KEYWORDS + SAVINGS_KEYWORDS
AnyKw4(ts) == AnyTotalKw(ts) \/ AnySubtotalKw(ts) \/ AnyTaxKw(ts) \/ AnySavingsKw(ts)

\* TOTAL_KEYWORDS + SUBTOTAL_KEYWORDS + TAX_KEYWORDS
AnyKw3(ts) == AnyTotalKw(ts) \/ AnySubtotalKw(ts) \/ AnyTaxKw(ts)

RECURSIVE TotalLook(_, _, _)
\* app.py 558-568: the first of the next lines that carries a price, unless a
\* keyword line or the end of the text comes first.
TotalLook(ls, i, j) ==
  IF j > LookAhead \/ i + j > Len(ls) THEN NoValue
  ELSE IF AnyKw4(ls[i + j]) THEN NoValue
  ELSE IF _find_best_price(ls[i + j]) # None
       THEN [amt |-> _find_best_price(ls[i + j]), kw |-> i, at |-> i + j]
  ELSE TotalLook(ls, i, j + 1)

\* A keyword scan that passes over no line of another category.
TotalSkipsNothing(ls, p, i) == ~TOTAL_KEYWORDS(p, ls[i])

\* app.py 538-551: the lines the keyword scan passes over.
TotalSkips(ls, p, i) ==
  \/ ~TOTAL_KEYWORDS(p, ls[i])
  \/ AnySubtotalKw(ls[i])
  \/ TOTAL_ITEM_COUNT_RE(ls[i])
  \/ AnyTaxKw(ls[i])

\* A keyword scan that accepts an amount of zero.
TotalAcceptsZero(amt) == amt # None

\* app.py 570: the amount the keyword scan accepts.
TotalAccepts(amt) == amt # None /\ amt >= 1

\* app.py 538-570: the amount keyword p finds from line i, NoValue when none.
TotalAt(ls, p, i) ==
  IF TotalSkips(ls, p, i) THEN NoValue
  ELSE LET same == _find_best_price(ls[i])
           r == IF same = None THEN TotalLook(ls, i, 1)
                ELSE [amt |-> same, kw |-> i, at |-> i]
       IN  IF TotalAccepts(r.amt) THEN r ELSE NoValue

RECURSIVE TotalCurrency(_, _, _)
\* app.py 572-582: the symbol on the keyword line, else on one of the next 3 lines.
TotalCurrency(ls, i, j) ==
  IF j > LookAhead \/ i + j > Len(ls) THEN NoStr
  ELSE IF CurrencySearch(ls[i + j]) # NoStr THEN NormSym(CurrencySearch(ls[i + j]))
  ELSE TotalCurrency(ls, i, j + 1)

\* A fallback that does not pass over item-count lines.
FallbackTakesCounts(ts) ==
  /\ ~_is_noise(ts, "generic")
  /\ ~AnySavingsKw(ts)
  /\ _find_best_price(ts) # None
  /\ _find_best_price(ts) >= 100

\* app.py 587-594: the lines and amounts the bottom-up fallback takes.
FallbackTakes(ts) ==
  /\ ~_is_noise(ts, "generic")
  /\ ~AnySavingsKw(ts)
  /\ ~TOTAL_ITEM_COUNT_RE(ts)
  /\ _find_best_price(ts) # None
  /\ _find_best_price(ts) >= 100

\* A scan that takes the first line, in line order, that any keyword accepts.
TotalScanByLine(ls, p) ==
  LET hits == {i \in 1..Len(ls) : \E q \in p..NTotalKw : TotalAt(ls, q, i).amt # None}
  IN  IF hits = {} THEN NoValue
      ELSE TotalAt(ls, Min({q \in p..NTotalKw : TotalAt(ls, q, Min(hits)).amt # None}),
                   Min(hits))

RECURSIVE TotalScan(_, _)
\* app.py 536-583: the keywords in their order, each over the lines in theirs;
\* the first amount accepted ends the scan.
TotalScan(ls, p) ==
  IF p > NTotalKw THEN NoValue
  ELSE LET hits == {i \in 1..Len(ls) : TotalAt(ls, p, i).amt # None}
       IN  IF hits # {} THEN TotalAt(ls, p, Min(hits)) ELSE TotalScan(ls, p + 1)

RECURSIVE TotalFallback(_, _)
\* app.py 586-599: the last line the fallback takes, 0 when there is none.
TotalFallback(ls, i) ==
  IF i = 0 THEN 0 ELSE IF FallbackTakes(ls[i]) THEN i ELSE TotalFallback(ls, i - 1)

\* _extract_total: [amt, sym, kw, at]
_extract_total(ls) ==
  LET r == TotalScan(ls, 1)
      fb == TotalFallback(ls, Len(ls))
  IN  IF r.amt # None
      THEN [amt |-> r.amt, kw |-> r.kw, at |-> r.at, sym |-> TotalCurrency(ls, r.kw, 0)]
      ELSE IF fb # 0
      THEN [amt |-> _find_best_price(ls[fb]), kw |-> 0, at |-> fb,
            sym |-> NormSym(CurrencySearch(ls[fb]))]
      ELSE [amt |-> None, kw |-> 0, at |-> 0, sym |-> NoStr]

SubtotalAccepts(amt) == amt # None /\ amt >= 1

\* app.py 617-618: the lines that end the subtotal's forward scan.
SubtotalStops(ts) == AnyKw3(ts)

RECURSIVE SubtotalLook(_, _, _)
SubtotalLook(ls, i, j) ==
  IF j > LookAhead \/ i + j > Len(ls) THEN NoValue
  ELSE IF SubtotalStops(ls[i + j]) THEN NoValue
  ELSE IF SubtotalAccepts(_find_best_price(ls[i + j]))
       THEN [amt |-> _find_best_price(ls[i + j]), kw |-> i, at |-> i + j]
  ELSE SubtotalLook(ls, i, j + 1)

SubtotalAt(ls, p, i) ==
  IF ~SUBTOTAL_KEYWORDS(p, ls[i]) THEN NoValue
  ELSE IF SubtotalAccepts(_find_best_price(ls[i]))
       THEN [amt |-> _find_best_price(ls[i]), kw |-> i, at |-> i]
  ELSE SubtotalLook(ls, i, 1)

RECURSIVE SubtotalScan(_, _)
SubtotalScan(ls, p) ==
  IF p > NSubtotalKw THEN NoValue
  ELSE LET hits == {i \in 1..Len(ls) : SubtotalAt(ls, p, i).amt # None}
       IN  IF hits # {} THEN SubtotalAt(ls, p, Min(hits)) ELSE SubtotalScan(ls, p + 1)

_extract_subtotal(ls) == SubtotalScan(ls, 1)

TaxCeiling == 50000

TaxAccepts(amt) == amt # None /\ 1 <= amt /\ amt < TaxCeiling

\* app.py 639-640: the lines that end the tax's forward scan.
TaxStops(ts) == AnyKw3(ts)

RECURSIVE TaxLook(_, _, _)
TaxLook(ls, i, j) ==
  IF j > LookAhead \/ i + j > Len(ls) THEN NoValue
  ELSE IF TaxStops(ls[i + j]) THEN NoValue
  ELSE IF TaxAccepts(_find_best_price(ls[i + j]))
       THEN [amt |-> _find_best_price(ls[i + j]), kw |-> i, at |-> i + j]
  ELSE TaxLook(ls, i, j + 1)

TaxAt(ls, p, i) ==
  IF ~TAX_KEYWORDS(p, ls[i]) THEN NoValue
  ELSE IF TaxAccepts(_find_best_price(ls[i]))
       THEN [amt |-> _find_best_price(ls[i]), kw |-> i, at |-> i]
  ELSE TaxLook(ls, i, 1)

RECURSIVE TaxScan(_, _)
TaxScan(ls, p) ==
  IF p > NTaxKw THEN NoValue
  ELSE LET hits == {i \in 1..Len(ls) : TaxAt(ls, p, i).amt # None}
       IN  IF hits # {} THEN TaxAt(ls, p, Min(hits)) ELSE TaxScan(ls, p + 1)

_extract_tax(ls) == TaxScan(ls, 1)

SavingsAccepts(amt) == amt # None /\ amt >= 1

\* app.py 660-661: the lines that end the savings' forward scan.
SavingsStops(ts) == AnyKw4(ts)

RECURSIVE SavingsLook(_, _, _)
SavingsLook(ls, i, j) ==
  IF j > LookAhead \/ i + j > Len(ls) THEN NoValue
  ELSE IF SavingsStops(ls[i + j]) THEN NoValue
  ELSE IF SavingsAccepts(_find_best_price(ls[i + j]))
       THEN [amt |-> _find_best_price(ls[i + j]), kw |-> i, at |-> i + j]
  ELSE SavingsLook(ls, i, j + 1)

SavingsAt(ls, p, i) ==
  IF ~SAVINGS_KEYWORDS(p, ls[i]) THEN NoValue
  ELSE IF SavingsAccepts(_find_best_price(ls[i]))
       THEN [amt |-> _find_best_price(ls[i]), kw |-> i, at |-> i]
  ELSE SavingsLook(ls, i, 1)

RECURSIVE SavingsScan(_, _)
SavingsScan(ls, p) ==
  IF p > NSavingsKw THEN NoValue
  ELSE LET hits == {i \in 1..Len(ls) : SavingsAt(ls, p, i).amt # None}
       IN  IF hits # {} THEN SavingsAt(ls, p, Min(hits)) ELSE SavingsScan(ls, p + 1)

_extract_savings(ls) == SavingsScan(ls, 1)

\* _extract_currency: the first symbol of the raw text, "$" when it has none.
_extract_currency(raw) ==
  IF CurrencySearch(Flatten(raw)) # NoStr THEN NormSym(CurrencySearch(Flatten(raw)))
  ELSE "$"

---------------------------------------------------------------------------
\* Merchant, date and item count (app.py 112-139, 289-296, 433-489, 669-685)

IsDate(t) == t.k = "d"
HasDate(ts) == \E a \in 1..Len(ts) : IsDate(ts[a])

Canonical(st) ==
  CASE st = "costco" -> <<W("costco", "T"), W("wholesale", "T")>>
    [] st = "walmart" -> <<W("walmart", "T")>>
    [] st = "target" -> <<W("target", "T")>>
    [] st = "kroger" -> <<W("kroger", "T")>>
    [] st = "aldi" -> <<W("aldi", "U")>>
    [] st = "trader_joes" -> <<W("trader", "T"), W("joe's", "T")>>
    [] st = "whole_foods" -> <<W("whole", "T"), W("foods", "T"), W("market", "T")>>
    [] st = "heb" -> <<W("h-e-b", "U")>>
    [] OTHER -> <<>>

MerchantLines == 5

\* app.py 446-457: a line _extract_merchant returns.
MerchantTakes(ts, st) ==
  /\ ~_is_noise(ts, st)
  /\ ~HasDate(ts)
  /\ TextLen(ts) >= 3
  /\ AlphaCount(ts) * 10 >= TextLen(ts) * 3

\* _extract_merchant: the merchant's text, <<>> for None.
_extract_merchant(ls, st) ==
  LET ok == {i \in 1..Len(Take(ls, MerchantLines)) : MerchantTakes(ls[i], st)}
  IN  IF Canonical(st) # <<>> THEN Canonical(st)
      ELSE IF ok # {} THEN ls[CHOOSE i \in ok : \A j \in ok : i <= j]
      ELSE <<>>

States ==
  {"al", "ak", "az", "ar", "ca", "co", "ct", "de", "fl", "ga", "hi", "id", "il", "in",
   "ia", "ks", "ky", "la", "me", "md", "ma", "mi", "mn", "ms", "mo", "mt", "ne", "nv",
   "nh", "nj", "nm", "ny", "nc", "nd", "oh", "ok", "or", "pa", "ri", "sc", "sd", "tn",
   "tx", "ut", "vt", "va", "wa", "wv", "wi", "wy"}

ADDRESS_RE(ts) ==
  \E a \in 1..(Len(ts) - 1) :
      /\ ts[a].k = "w" /\ ts[a].s \in States
      /\ ts[a + 1].k = "n" /\ ts[a + 1].d = 0 /\ Digits(ts[a + 1].i) = 5

DATE_KEYWORD_RE(ts) == Match(ts, <<{"date", "dt", "dated"}>>)

\* The first group of DATE_RE_VERBOSE's first match on a line, <<>> when none.
DateOf(ts) ==
  LET ds == {a \in 1..Len(ts) : IsDate(ts[a])}
  IN  IF ds = {} THEN <<>> ELSE <<ts[CHOOSE a \in ds : \A b \in ds : a <= b]>>

\* _extract_date: the date's text, <<>> for None.
_extract_date(ls) ==
  LET p1 == {i \in 1..Len(ls) : DATE_KEYWORD_RE(ls[i]) /\ HasDate(ls[i])}
      p2 == {i \in 1..Len(ls) : ~ADDRESS_RE(ls[i]) /\ HasDate(ls[i])}
  IN  IF p1 # {} THEN DateOf(ls[CHOOSE i \in p1 : \A j \in p1 : i <= j])
      ELSE IF p2 # {} THEN DateOf(ls[CHOOSE i \in p2 : \A j \in p2 : i <= j])
      ELSE <<>>

\* COSTCO_ITEM_COUNT_RE's group on a line, None when it does not match.
CostcoCount(ts) ==
  LET ms == {a \in 1..(Len(ts) - 2) :
               /\ ts[a].k = "n" /\ ts[a].d = 0 /\ Digits(ts[a].i) <= 3
               /\ Key(ts[a + 1]) \in {"item", "items"} /\ Key(ts[a + 2]) = "sold"}
  IN  IF ms = {} THEN None ELSE ts[CHOOSE a \in ms : \A b \in ms : a <= b].i

\* ITEM_COUNT_RE's group on a line, None when it does not match: the count word,
\* an optional ":" or "-", then a number of at most 4 integer digits.
ItemCount(ts) ==
  LET cw == {"item", "items", "qty", "quantitie", "quantities"}
      num(t) == t.k = "n" /\ Digits(t.i) <= 4
      ms == {a \in 1..(Len(ts) - 1) :
               /\ Key(ts[a]) \in cw
               /\ \/ num(ts[a + 1])
                  \/ (a + 2 <= Len(ts) /\ Key(ts[a + 1]) \in {":", "-"} /\ num(ts[a + 2]))}
      a0 == CHOOSE a \in ms : \A b \in ms : a <= b
  IN  IF ms = {} THEN None
      ELSE IF ts[a0 + 1].k = "n" THEN ts[a0 + 1].i ELSE ts[a0 + 2].i

\* _extract_item_count_from_text: the receipt's own count, None when it has none.
_extract_item_count_from_text(ls, st) ==
  LET cs == {i \in 1..Len(ls) : CostcoCount(ls[i]) # None}
      gs == {i \in 1..Len(ls) : ItemCount(ls[i]) # None}
  IN  IF st = "costco" /\ cs # {} THEN CostcoCount(ls[CHOOSE i \in cs : \A j \in cs : i <= j])
      ELSE IF gs # {} THEN ItemCount(ls[CHOOSE i \in gs : \A j \in gs : i <= j])
      ELSE None

---------------------------------------------------------------------------
\* Substitutions on names (app.py 94-99, 298-315, 692-734)

IsInt(t) == t.k = "n" /\ t.d = 0
IsLetter(t) == t.k = "w" /\ Len(t.s) = 1
\* [xX*@] of QTY_PRICE_RE: the letter x, the multiplication sign or the at sign.
IsTimes(t) == (t.k = "w" /\ t.s = "x") \/ (t.k = "p" /\ t.s \in {"@", "times"})

\* What is left of a number of more than 6 integer digits after its first 6.
Beyond6(t) ==
  IF Digits(t.i) <= 6 THEN <<>>
  ELSE <<[t EXCEPT !.i = t.i % Pow10(Digits(t.i) - 6)]>>

\* The second alternative of PRICE_RE at the head of ts: a 2-decimal number, an
\* optional currency symbol, an optional single letter, the end of the line.
PriceTail(ts) ==
  /\ ts # <<>> /\ ts[1].k = "n" /\ ts[1].d = 2
  /\ \/ Len(ts) = 1
     \/ (Len(ts) = 2 /\ (ts[2].k = "c" \/ IsLetter(ts[2])))
     \/ (Len(ts) = 3 /\ ts[2].k = "c" /\ IsLetter(ts[3]))

RECURSIVE PRICE_RE_sub(_)
\* PRICE_RE.sub("", text)
PRICE_RE_sub(ts) ==
  IF ts = <<>> THEN <<>>
  ELSE IF CurrencyAt(ts, 1) THEN Beyond6(ts[2]) \o PRICE_RE_sub(SubSeq(ts, 3, Len(ts)))
  ELSE IF PriceTail(ts)
       THEN IF Digits(ts[1].i) <= 6 THEN <<>> ELSE <<N(ts[1].i \div Pow10(6))>>
  ELSE <<Head(ts)>> \o PRICE_RE_sub(Tail(ts))

\* CURRENCY_RE.sub("", text)
CURRENCY_RE_sub(ts) == SelectSeq(ts, LAMBDA t : t.k # "c")

\* The number of tokens a match of QTY_PRICE_RE takes at the head of ts, 0 when
\* it does not match there: count, sign, optional currency symbol, number.
QtyAt(ts) ==
  IF Len(ts) >= 3 /\ ts[1].k = "n" /\ IsTimes(ts[2]) /\ ts[3].k = "n" THEN 3
  ELSE IF Len(ts) >= 4 /\ ts[1].k = "n" /\ IsTimes(ts[2]) /\ ts[3].k = "c" /\ ts[4].k = "n"
       THEN 4
  ELSE 0

\* What (\d+) leaves of the count token: nothing of an integer, the integer part
\* and the point of a decimal number (its decimals are the digits before the sign).
QtyLeft(t) == IF t.d = 0 THEN <<>> ELSE <<[t EXCEPT !.k = "r", !.d = 0, !.f = 0]>>

\* int(group(1)) of a match whose count token is t.
QtyGroup(t) == IF t.d = 0 THEN t.i ELSE t.f

RECURSIVE QTY_PRICE_RE_sub(_)
\* QTY_PRICE_RE.sub("", text)
QTY_PRICE_RE_sub(ts) ==
  IF ts = <<>> THEN <<>>
  ELSE IF QtyAt(ts) > 0
       THEN QtyLeft(ts[1]) \o Beyond6(ts[QtyAt(ts)])
            \o QTY_PRICE_RE_sub(SubSeq(ts, QtyAt(ts) + 1, Len(ts)))
  ELSE <<Head(ts)>> \o QTY_PRICE_RE_sub(Tail(ts))

\* QTY_PRICE_RE.search(text): the count of the first match, None when none.
QtySearch(ts) ==
  LET ms == {a \in 1..Len(ts) : QtyAt(SubSeq(ts, a, Len(ts))) > 0}
  IN  IF ms = {} THEN None ELSE QtyGroup(ts[CHOOSE a \in ms : \A b \in ms : a <= b])

\* The number of tokens a match of WEIGHT_ITEM_RE takes at the head of ts.
WeightAt(ts) ==
  LET unit(t) == t.k = "w" /\ t.s \in {"lb", "kg", "oz", "lbs"}
      at(t) == t.k = "p" /\ t.s = "@"
  IN  IF Len(ts) >= 4 /\ ts[1].k = "n" /\ unit(ts[2]) /\ at(ts[3]) /\ ts[4].k = "n" THEN 4
      ELSE IF Len(ts) >= 5 /\ ts[1].k = "n" /\ unit(ts[2]) /\ at(ts[3])
              /\ ts[4].k = "c" /\ ts[5].k = "n" THEN 5
      ELSE 0

RECURSIVE WEIGHT_ITEM_RE_sub(_)
\* WEIGHT_ITEM_RE.sub("", text)
WEIGHT_ITEM_RE_sub(ts) ==
  IF ts = <<>> THEN <<>>
  ELSE IF WeightAt(ts) > 0 THEN WEIGHT_ITEM_RE_sub(SubSeq(ts, WeightAt(ts) + 1, Len(ts)))
  ELSE <<Head(ts)>> \o WEIGHT_ITEM_RE_sub(Tail(ts))

\* re.sub(r"\b\d{4,}\b", "", text) on one token.
LongRunLeft(t) ==
  CASE t.k = "n" /\ t.d = 0 /\ Digits(t.i) >= 4 -> <<>>
    [] t.k = "n" /\ t.d > 0 /\ Digits(t.i) >= 4 -> <<[t EXCEPT !.k = "r", !.i = -1]>>
    [] t.k = "r" /\ t.i >= 1000 -> <<P(".")>>
    [] t.k = "d" /\ t.i >= 1000 -> <<[t EXCEPT !.i = -1]>>
    [] OTHER -> <<t>>

RECURSIVE LongRuns_sub(_)
LongRuns_sub(ts) == IF ts = <<>> THEN <<>> ELSE LongRunLeft(Head(ts)) \o LongRuns_sub(Tail(ts))

\* The characters of strip(" -:,./\\|").
StripChars == {"-", ":", ",", ".", "/", "|", "---", "\\"}

RECURSIVE StripLeft(_)
StripLeft(ts) ==
  IF ts = <<>> THEN <<>>
  ELSE IF ts[1].k = "p" /\ ts[1].s \in StripChars THEN StripLeft(Tail(ts))
  ELSE IF ts[1].k = "r" /\ ts[1].i < 0 THEN <<N(ts[1].f)>> \o Tail(ts)
  ELSE ts

RECURSIVE StripRight(_)
StripRight(ts) ==
  LET n == Len(ts)
  IN  IF ts = <<>> THEN <<>>
      ELSE IF ts[n].k = "p" /\ ts[n].s \in StripChars THEN StripRight(SubSeq(ts, 1, n - 1))
      ELSE IF ts[n].k = "r" /\ ts[n].i >= 0 /\ ts[n].d = 0
           THEN SubSeq(ts, 1, n - 1) \o <<N(ts[n].i)>>
      ELSE IF ts[n].k = "d" /\ ts[n].i < 0 THEN SubSeq(ts, 1, n - 1) \o <<[ts[n] EXCEPT !.d = 1]>>
      ELSE ts

COSTCO_ITEM_CODE_RE_sub(ts) ==
  IF Len(ts) >= 2 /\ IsInt(ts[1]) /\ Digits(ts[1].i) >= 5 /\ Digits(ts[1].i) <= 7
  THEN Tail(ts) ELSE ts

WALMART_ITEM_CODE_RE_sub(ts) ==
  IF Len(ts) >= 2 /\ IsInt(ts[1]) /\ Digits(ts[1].i) >= 9 THEN Tail(ts)
  ELSE IF Len(ts) >= 3 /\ IsInt(ts[1]) /\ Digits(ts[1].i) = 1
          /\ IsInt(ts[2]) /\ Digits(ts[2].i) >= 10 THEN Tail(Tail(ts))
  ELSE ts

RECURSIVE TARGET_DPCI_RE_sub(_)
TARGET_DPCI_RE_sub(ts) ==
  IF Len(ts) < 3 THEN ts
  ELSE IF IsInt(ts[1]) /\ Digits(ts[1].i) = 3 /\ IsInt(ts[2]) /\ Digits(ts[2].i) = 2
          /\ IsInt(ts[3]) /\ Digits(ts[3].i) = 4
       THEN TARGET_DPCI_RE_sub(SubSeq(ts, 4, Len(ts)))
  ELSE <<Head(ts)>> \o TARGET_DPCI_RE_sub(Tail(ts))

\* The letters of re.sub(r"\s+[EATFNOX]\s*$", "", name, flags=re.I), app.py 700.
\* app.py 309-311: the letters of COSTCO_TAX_SUFFIX_RE, WALMART_TAX_SUFFIX_RE and
\* TARGET_TAX_SUFFIX_RE; _clean_item_name does not use these patterns.
TemplateSuffix(st) ==
  CASE st = "costco" -> {"e", "a"}
    [] st = "walmart" -> {"n", "t", "o", "x", "a"}
    [] st = "target" -> {"t", "f", "x"}
    [] OTHER -> {}

SuffixLetters(st) == {"e", "a", "t", "f", "n", "o", "x"}

\* The trailing single letter, after at least one blank, is cut.
TaxSuffix_sub(ts, st) ==
  IF Len(ts) >= 2 /\ ts[Len(ts)].k = "w" /\ ts[Len(ts)].s \in SuffixLetters(st)
  THEN SubSeq(ts, 1, Len(ts) - 1) ELSE ts

_clean_item_name(ts, st) ==
  LET n1 == CASE st = "costco" -> COSTCO_ITEM_CODE_RE_sub(ts)
              [] st = "walmart" -> WALMART_ITEM_CODE_RE_sub(ts)
              [] st = "target" -> TARGET_DPCI_RE_sub(ts)
              [] OTHER -> ts
      n2 == TaxSuffix_sub(n1, st)
      n3 == PRICE_RE_sub(n2)
      n4 == CURRENCY_RE_sub(n3)
      n5 == QTY_PRICE_RE_sub(n4)
      n6 == WEIGHT_ITEM_RE_sub(n5)
      n7 == LongRuns_sub(n6)
  IN  StripRight(StripLeft(n7))

_has_item_name(ts) ==
  AlphaCount(WEIGHT_ITEM_RE_sub(CURRENCY_RE_sub(QTY_PRICE_RE_sub(PRICE_RE_sub(ts))))) >= 3

_is_non_item_line(ts, st) ==
  _is_noise(ts, st) \/ AnyTotalKw(ts) \/ AnySubtotalKw(ts) \/ AnyTaxKw(ts) \/ AnySavingsKw(ts)

\* str.upper(name) = name, str.title(name), str.lower(name)
IsUpper(ts) == \A a \in 1..Len(ts) : ts[a].k = "w" => ts[a].c = "U"
Title(ts) == [a \in 1..Len(ts) |->
                IF ts[a].k # "w" THEN ts[a]
                ELSE [ts[a] EXCEPT !.c = IF Len(ts[a].s) > 1 THEN "T" ELSE "U"]]
Lower(ts) == [a \in 1..Len(ts) |-> IF ts[a].k = "w" THEN [ts[a] EXCEPT !.c = "L"] ELSE ts[a]]

---------------------------------------------------------------------------
\* The item parser (app.py 737-848)

\* len(DATE_RE.sub("", stripped).strip()): a date cut from between two tokens
\* leaves both of its blanks.
NonDateLen(ts) ==
  LET rest == SelectSeq(ts, LAMBDA t : ~IsDate(t))
      inner == {a \in 2..(Len(ts) - 1) : IsDate(ts[a])}
  IN  TextLen(rest) + Cardinality(inner)

\* How the loop of _extract_items treats one line (app.py 785-843).
LineClass(ts, st) ==
  IF TextLen(ts) < 2 THEN "skip"
  ELSE IF AnySubtotalKw(ts) \/ AnyTotalKw(ts) THEN "stop"
  ELSE IF _is_non_item_line(ts, st) THEN "skip"
  ELSE IF HasDate(ts) /\ NonDateLen(ts) < 5 THEN "skip"
  ELSE IF _has_item_name(ts) /\ _find_best_price(ts) = None THEN "name"
  ELSE IF _has_item_name(ts) /\ TextLen(_clean_item_name(ts, st)) >= 2 THEN "both"
  ELSE IF _find_best_price(ts) # None THEN "price"
  ELSE "skip"

\* No sanity check of a price against the total.
PriceUnchecked(price, tot) == TRUE

\* app.py 771: the sanity check of a price against the total.
PriceSane(price, tot) == tot = None \/ price * 10 <= tot * 11

\* app.py 773: the stores whose upper-case names are put in title case.
TitleCased(name, st) ==
  IF st \in {"costco", "indian_grocery"} /\ IsUpper(name) /\ TextLen(name) > 3
  THEN Title(name) ELSE name

\* app.py 767-771: whether _finalize_pending appends the pending item.
Finalizes(name, price, tot, st) ==
  /\ name # <<>>
  /\ price # None /\ price > 0
  /\ TextLen(_clean_item_name(name, st)) >= 2
  /\ PriceSane(price, tot)

\* The item list after _finalize_pending.
Finalized(its, name, price, qty, tot, st) ==
  IF Finalizes(name, price, tot, st)
  THEN Append(its, [name |-> TitleCased(_clean_item_name(name, st), st),
                    quantity |-> qty, price |-> price])
  ELSE its

\* The lines each item of the list was read from, kept beside the list: n the
\* line of its name and p the line of its price, numbered as in lines.
FinalizedSrc(srcs, src, name, price, tot, st) ==
  IF Finalizes(name, price, tot, st) THEN Append(srcs, src) ELSE srcs

NoSrc == [n |-> 0, p |-> 0]

\* app.py 825, 830-832, 839-841: the quantity a line gives.
QtyOr(ts, dflt) == IF QtySearch(ts) = None THEN dflt ELSE QtySearch(ts)

\* A handler that gives the parser every line.
SkipNone(n) == 0

\* The number of header lines the handler withholds from the parser (app.py 999).
Skip(n) == IF n > 6 THEN 2 ELSE IF n > 2 THEN 1 ELSE 0

here == item_lines[pos]
lineno == pos + (Len(lines) - Len(item_lines))
inLoop == pc = "items" /\ pos <= Len(item_lines)

fieldVars == <<raw_text, lines, store, merchant, purchase_date, total, currency,
               subtotal, tax, savings, prov, item_lines, parsed_items, item_count>>
pendingVars == <<pending_name, pending_price, pending_qty, pending_src>>

ClearPending ==
  /\ pending_name' = <<>>
  /\ pending_price' = None
  /\ pending_qty' = 1
  /\ pending_src' = NoSrc

FinalizePending ==
  /\ items' = Finalized(items, pending_name, pending_price, pending_qty, total, store)
  /\ item_src' = FinalizedSrc(item_src, pending_src, pending_name, pending_price, total, store)

\* A loop that passes over a subtotal or total line and reads on.
ItemStopPassed(cls) ==
  /\ cls = "stop"
  /\ pos' = pos + 1
  /\ UNCHANGED <<fieldVars, pendingVars, items, item_src, pc>>

\* app.py 790-792: a subtotal or total line ends the loop.
ItemStop(cls) ==
  /\ cls = "stop"
  /\ FinalizePending /\ ClearPending
  /\ pc' = "parsed"
  /\ UNCHANGED <<fieldVars, pos>>

\* app.py 786-802, 843: a line the loop passes over.
ItemSkip(cls) ==
  /\ cls = "skip"
  /\ pos' = pos + 1
  /\ UNCHANGED <<fieldVars, pendingVars, items, item_src, pc>>

\* A loop in which a new name inherits the price already pending.
ItemNameKeepsPrice(cls) ==
  /\ cls = "name"
  /\ FinalizePending
  /\ pending_name' = here
  /\ pending_src' = [n |-> lineno, p |-> pending_src.p]
  /\ pos' = pos + 1
  /\ UNCHANGED <<fieldVars, pending_price, pending_qty, pc>>

\* app.py 808-814: a name without a price.
ItemNameOnly(cls) ==
  /\ cls = "name"
  /\ FinalizePending
  /\ pending_name' = here
  /\ pending_price' = None
  /\ pending_qty' = 1
  /\ pending_src' = [n |-> lineno, p |-> 0]
  /\ pos' = pos + 1
  /\ UNCHANGED <<fieldVars, pc>>

\* app.py 816-825: a name and a price on one line.
ItemNameAndPrice(cls) ==
  /\ cls = "both"
  /\ FinalizePending
  /\ pending_name' = here
  /\ pending_price' = _find_best_price(here)
  /\ pending_qty' = QtyOr(here, 1)
  /\ pending_src' = [n |-> lineno, p |-> lineno]
  /\ pos' = pos + 1
  /\ UNCHANGED <<fieldVars, pc>>

\* A loop that never gives the pending name the price of a later line.
ItemPriceLost(cls) ==
  /\ cls = "price"
  /\ pos' = pos + 1
  /\ UNCHANGED <<fieldVars, pendingVars, items, item_src, pc>>

\* A loop that keeps the first price a pending name was given.
ItemPriceFirst(cls) ==
  /\ cls = "price"
  /\ IF pending_name # <<>> /\ pending_price = None
     THEN /\ pending_price' = _find_best_price(here)
          /\ pending_qty' = QtyOr(here, pending_qty)
          /\ pending_src' = [pending_src EXCEPT !.p = lineno]
          /\ UNCHANGED pending_name
     ELSE UNCHANGED pendingVars
  /\ pos' = pos + 1
  /\ UNCHANGED <<fieldVars, items, item_src, pc>>

\* app.py 826-841: a price for the pending name, lost when no name is pending.
ItemPriceOnly(cls) ==
  /\ cls = "price"
  /\ IF pending_name # <<>>
     THEN /\ pending_price' = _find_best_price(here)
          /\ pending_qty' = QtyOr(here, pending_qty)
          /\ pending_src' = [pending_src EXCEPT !.p = lineno]
          /\ UNCHANGED pending_name
     ELSE UNCHANGED pendingVars
  /\ pos' = pos + 1
  /\ UNCHANGED <<fieldVars, items, item_src, pc>>

\* app.py 784-843: one turn of the loop over the lines.
ItemLine ==
  /\ inLoop
  /\ LET cls == LineClass(here, store)
     IN  \/ ItemStop(cls)
         \/ ItemSkip(cls)
         \/ ItemNameOnly(cls)
         \/ ItemNameAndPrice(cls)
         \/ ItemPriceOnly(cls)

\* app.py 845-848: the end of the lines.
ItemEnd ==
  /\ pc = "items" /\ pos > Len(item_lines)
  /\ FinalizePending /\ ClearPending
  /\ pc' = "parsed"
  /\ UNCHANGED <<fieldVars, pos>>

NextItems == ItemLine \/ ItemEnd

---------------------------------------------------------------------------
\* Validation (app.py 855-881)

\* A key that keeps the casing of the name.
ItemKeyCased(it) == <<it.name, it.price>>

\* app.py 866: (item["name"].lower(), item["price"])
ItemKey(it) == <<Lower(it.name), it.price>>

RECURSIVE UniqueItems(_, _)
\* app.py 863-869: the items whose key was not seen before, in order.
UniqueItems(its, seen) ==
  IF its = <<>> THEN <<>>
  ELSE IF ItemKey(Head(its)) \in seen THEN UniqueItems(Tail(its), seen)
  ELSE <<Head(its)>> \o UniqueItems(Tail(its), seen \cup {ItemKey(Head(its))})

_validate_items_against_total(its) == IF its = <<>> THEN its ELSE UniqueItems(its, {})

RECURSIVE UniqueSrc(_, _, _)
\* The lines of the items UniqueItems keeps.
UniqueSrc(its, srcs, seen) ==
  IF its = <<>> THEN <<>>
  ELSE IF ItemKey(Head(its)) \in seen THEN UniqueSrc(Tail(its), Tail(srcs), seen)
  ELSE <<Head(srcs)>> \o UniqueSrc(Tail(its), Tail(srcs), seen \cup {ItemKey(Head(its))})

---------------------------------------------------------------------------
\* The /ocr handler (app.py 960-1039)

itemVars == <<pos, pending_name, pending_price, pending_qty, pending_src, items, item_src,
              parsed_items>>

NoProv == [total |-> NoSrc, subtotal |-> NoSrc, tax |-> NoSrc, savings |-> NoSrc]
Src(r) == [n |-> r.kw, p |-> r.at]

\* if not raw_text (app.py 960)
NoText(raw) == raw = <<>>

\* app.py 960-975: no text was detected.
EmptyRecord ==
  /\ pc = "start" /\ NoText(raw_text)
  /\ lines' = <<>>
  /\ items' = <<>>
  /\ merchant' = <<>>
  /\ purchase_date' = <<>>
  /\ total' = None
  /\ subtotal' = None
  /\ tax' = None
  /\ savings' = None
  /\ currency' = NoStr
  /\ item_count' = 0
  /\ store' = "unknown"
  /\ pc' = "done"
  /\ UNCHANGED <<raw_text, prov, item_lines, pos, pending_name, pending_price,
                 pending_qty, pending_src, item_src, parsed_items>>

\* [l.strip() for l in raw_text.split("\n") if l.strip()]
SplitText(raw) == SelectSeq(raw, LAMBDA l : l # <<>>)

\* app.py 978: the text is split into its lines that are not blank.
SplitLines ==
  /\ pc = "start" /\ ~NoText(raw_text)
  /\ lines' = SplitText(raw_text)
  /\ pc' = "detect"
  /\ UNCHANGED <<raw_text, store, merchant, purchase_date, total, currency, subtotal, tax,
                 savings, prov, item_lines, item_count, itemVars>>

\* app.py 987
DetectStore ==
  /\ pc = "detect"
  /\ store' = _detect_store(lines, raw_text)
  /\ pc' = "fields"
  /\ UNCHANGED <<raw_text, lines, merchant, purchase_date, total, currency, subtotal, tax,
                 savings, prov, item_lines, item_count, itemVars>>

\* total_currency or _extract_currency(lines, raw_text)
CurrencyOf(sym, raw) == IF sym # NoStr THEN sym ELSE _extract_currency(raw)

\* app.py 991-1000: the fields, then the lines handed to the item parser.
ExtractFields ==
  /\ pc = "fields"
  /\ merchant' = _extract_merchant(lines, store)
  /\ purchase_date' = _extract_date(lines)
  /\ LET t == _extract_total(lines)
         sub == _extract_subtotal(lines)
         tx == _extract_tax(lines)
         sv == _extract_savings(lines)
     IN  /\ total' = t.amt
         /\ currency' = CurrencyOf(t.sym, raw_text)
         /\ subtotal' = sub.amt
         /\ tax' = tx.amt
         /\ savings' = sv.amt
         /\ prov' = [total |-> Src(t), subtotal |-> Src(sub), tax |-> Src(tx),
                     savings |-> Src(sv)]
  /\ item_lines' = SubSeq(lines, Skip(Len(lines)) + 1, Len(lines))
  /\ pos' = 1
  /\ pc' = "items"
  /\ UNCHANGED <<raw_text, lines, store, item_count, pending_name, pending_price,
                 pending_qty, pending_src, items, item_src, parsed_items>>

\* receipt_item_count if receipt_item_count else len(items)
CountOf(n, its) == IF n # None /\ n # 0 THEN n ELSE Len(its)

\* A record that reports the currency as it was found.
ReportedAsFound(cur, st) == cur

\* app.py 1007-1008: a rupee sign is reported as a dollar sign for an Indian grocery.
ReportedCurrency(cur, st) == IF st = "indian_grocery" /\ cur = "rupee" THEN "$" ELSE cur

\* app.py 1001-1008: the list _extract_items returned is kept as parsed_items;
\* validation, the item count and the currency of the record.
Validate ==
  /\ pc = "parsed"
  /\ parsed_items' = items
  /\ items' = _validate_items_against_total(items)
  /\ item_src' = UniqueSrc(items, item_src, {})
  /\ item_count' = CountOf(_extract_item_count_from_text(lines, store),
                           _validate_items_against_total(items))
  /\ currency' = ReportedCurrency(currency, store)
  /\ pc' = "done"
  /\ UNCHANGED <<raw_text, lines, store, merchant, purchase_date, total, subtotal, tax,
                 savings, prov, item_lines, pos, pending_name, pending_price, pending_qty,
                 pending_src>>

Next ==
  \/ EmptyRecord \/ SplitLines \/ DetectStore \/ ExtractFields
  \/ ItemLine \/ ItemEnd
  \/ Validate

---------------------------------------------------------------------------
\* Receipts

MILK == <<U("milk")>>
AT399 == <<N(1), P("@"), D(3, 99)>>
P399 == <<D(3, 99)>>
BREAD250 == <<U("bread"), D(2, 50)>>
Bread250 == <<W("bread", "T"), D(2, 50)>>
MILK1500 == <<U("milk"), D(15, 0)>>
ZEROX150 == <<N(0), W("x", "L"), D(1, 50)>>
EGGS_T == <<U("eggs"), D(1, 0), U("t")>>
THANKS == <<U("thank"), U("you")>>
TOTAL1000 == <<U("total"), D(10, 0)>>
TOTAL1100 == <<U("total"), D(11, 0)>>
TOTAL000 == <<U("total"), D(0, 0)>>
TOTAL_USD == <<U("total"), Cur("$"), D(11, 0)>>
TOTAL_KW == <<U("total")>>
TOTAL_ITEMS == <<U("total"), U("items"), N(3)>>
SUBTOTAL1000 == <<U("subtotal"), D(10, 0)>>
SUB_TOTAL900 == <<U("sub"), U("total"), D(9, 0)>>
SUBTOTAL_KW == <<U("subtotal")>>
TAX100 == <<U("tax"), D(1, 0)>>
TAX000 == <<U("tax"), D(0, 0)>>
TAX60000 == <<U("tax"), D(600, 0)>>
TAX_KW == <<U("tax")>>
SAVED200 == <<U("you"), U("saved"), D(2, 0)>>
SAVED_KW == <<U("you"), U("saved")>>
RS4500 == <<Cur("Rs"), D(45, 0)>>
POUND500 == <<Cur("pound"), D(5, 0)>>
GHEE300 == <<U("ghee"), D(3, 0)>>
WALMART == <<U("walmart"), U("supercenter"), P("#"), N(1234)>>
COSTCO == <<U("costco"), U("wholesale")>>
TARGET == <<U("target")>>
KROGER == <<U("kroger")>>
WAL == <<U("wal")>>
MART == <<U("mart")>>
Blank == <<>>
VISA1100 == <<U("visa"), D(11, 0)>>
WHSE500 == <<U("whse"), D(5, 0)>>
TWOX150 == <<N(2), W("x", "L"), D(1, 50)>>
EGGS_T_NAME == <<U("eggs"), U("t")>>
ABC_NUMS250 == <<U("abc"), N(123), N(456), N(789), N(123), D(2, 50)>>
GRAND1200 == <<U("grand"), U("total"), D(12, 0)>>
GRAND_KW == <<U("grand"), U("total")>>
AMOUNT_DUE1300 == <<U("amount"), U("due"), D(13, 0)>>
BALANCE_DUE900 == <<U("balance"), U("due"), D(9, 0)>>
NET_AMOUNT800 == <<U("net"), U("amount"), D(8, 0)>>
PAYABLE700 == <<U("payable"), D(7, 0)>>
ITEMS_SOLD500 == <<U("items"), U("sold"), D(5, 0)>>
BREAD050 == <<U("bread"), D(0, 50)>>

ItemVocab == {MILK, P399, BREAD250, Bread250, MILK1500, ZEROX150, TOTAL1000, THANKS}
KeywordVocab == {SUBTOTAL1000, SUB_TOTAL900, SUBTOTAL_KW, TAX100, TAX000, TAX60000,
                 TOTAL1100, TOTAL000, TOTAL_ITEMS, SAVED200}
CurrencyVocab == {RS4500, POUND500, TOTAL_USD, TOTAL1100, GHEE300, MILK}
GapVocab == {MILK, SAVED_KW, TAX_KW}
KeywordOnly == {TOTAL_KW, SUBTOTAL_KW, TAX_KW, SAVED_KW}
StoreVocab == {WALMART, COSTCO, TARGET, KROGER, GHEE300, WAL}
NoiseVocab == {VISA1100, WHSE500, TOTAL_KW, TAX_KW, MILK, COSTCO, BREAD250}
PriorityVocab == {GRAND1200, GRAND_KW, NET_AMOUNT800, TOTAL1100, AMOUNT_DUE1300,
                  BALANCE_DUE900, PAYABLE700, TAX100}
FallbackVocab == {ITEMS_SOLD500, BREAD050, BREAD250, SAVED200, VISA1100, WHSE500, COSTCO}
ParserVocab == {MILK, P399, TWOX150, BREAD250, TOTAL1000, THANKS}
NameVocab == {MILK, P399, EGGS_T_NAME, ABC_NUMS250}

MaxLines == 3
MaxGap == 4
MaxPad == 10

\* The sequences of at most n elements of S.
SeqUpTo(S, n) == UNION {[1..m -> S] : m \in 0..n}

Pad(k) == [a \in 1..k |-> MILK]

Examples ==
  { <<MILK, AT399, P399, BREAD250>>,
    <<SUBTOTAL1000, TAX100, TOTAL1100>>,
    <<WALMART>>, <<RS4500>>,
    <<>>, <<Blank>>, <<Blank, Blank>>, <<Blank, MILK, Blank, BREAD250>> }
  \cup { <<h, MILK, AT399, P399, BREAD250, TOTAL1000>> : h \in {THANKS, WALMART, COSTCO} }
  \cup { <<h, l, MILK, P399, GHEE300, TOTAL1100, THANKS>> :
           h \in {THANKS, WALMART, COSTCO}, l \in {BREAD250, TOTAL1000} }

Inputs ==
  Examples
  \cup SeqUpTo(ItemVocab, MaxLines)
  \cup SeqUpTo(KeywordVocab, MaxLines)
  \cup SeqUpTo(CurrencyVocab, MaxLines)
  \cup SeqUpTo(NoiseVocab, MaxLines)
  \cup SeqUpTo(PriorityVocab, MaxLines)
  \cup SeqUpTo(FallbackVocab, MaxLines)
  \cup { <<k>> \o mid \o <<v>> :
           k \in KeywordOnly, mid \in SeqUpTo(GapVocab, MaxGap), v \in {P399, TOTAL1100} }
  \cup { Pad(k) \o <<s>> \o t :
           k \in 0..MaxPad, s \in StoreVocab, t \in {<<>>, <<MART>>, <<GHEE300>>, <<TARGET>>} }

Init ==
  /\ raw_text \in Inputs
  /\ lines = <<>>
  /\ store = "unknown"
  /\ merchant = <<>>
  /\ purchase_date = <<>>
  /\ total = None
  /\ currency = NoStr
  /\ subtotal = None
  /\ tax = None
  /\ savings = None
  /\ prov = NoProv
  /\ item_lines = <<>>
  /\ pos = 1
  /\ pending_name = <<>>
  /\ pending_price = None
  /\ pending_qty = 1
  /\ pending_src = NoSrc
  /\ items = <<>>
  /\ item_src = <<>>
  /\ parsed_items = <<>>
  /\ item_count = 0
  /\ pc = "start"

Spec == Init /\ [][Next]_vars

\* _extract_items called on its own: any lines, a total or None, a store.
ItemInputs ==
  {<<MILK, AT399, P399, BREAD250>>}
  \cup SeqUpTo(ParserVocab, MaxLines)
  \cup SeqUpTo(NameVocab, MaxLines)
TotalArgs == {None, 250}
StoreArgs == {"generic", "costco"}

InitItems ==
  /\ item_lines \in ItemInputs
  /\ total \in TotalArgs
  /\ store \in StoreArgs
  /\ raw_text = item_lines
  /\ lines = item_lines
  /\ merchant = <<>>
  /\ purchase_date = <<>>
  /\ currency = NoStr
  /\ subtotal = None
  /\ tax = None
  /\ savings = None
  /\ prov = NoProv
  /\ pos = 1
  /\ pending_name = <<>>
  /\ pending_price = None
  /\ pending_qty = 1
  /\ pending_src = NoSrc
  /\ items = <<>>
  /\ item_src = <<>>
  /\ parsed_items = <<>>
  /\ item_count = 0
  /\ pc = "items"

SpecItems == InitItems /\ [][NextItems]_vars

---------------------------------------------------------------------------
\* Multi-line items (C1)

\* C1, as stated: the handler, run on the receipt MILK / 1 @ 3.99 / 3.99 /
\* BREAD 2.50, returns exactly the two items (MILK, 1, 3.99) and (BREAD, 1, 2.50).
C1_EngineReturnsTwoItems ==
  (pc = "done" /\ raw_text = <<MILK, AT399, P399, BREAD250>>)
    => items = << [name |-> <<U("milk")>>, quantity |-> 1, price |-> 399],
                  [name |-> <<U("bread")>>, quantity |-> 1, price |-> 250] >>

\* C1, amended: when the four lines MILK / 1 @ 3.99 / 3.99 / BREAD 2.50 are the
\* first lines the handler hands to the item parser (they follow the header lines
\* it withholds), nothing or a total line follows them, and the total is at least
\* 3.63 (so that 3.99 <= 1.1 x total), the handler returns exactly two items in
\* line order: the name of the name-only line with quantity 1 and the price of the
\* price-only line, the last price before the next name, then the name and the
\* price of the name-and-price line with quantity 1; the names are put in title
\* case when the store is costco or indian_grocery.
C1_EngineAfterHeader ==
  (/\ pc = "done"
   /\ Len(item_lines) >= 4
   /\ SubSeq(item_lines, 1, 4) = <<MILK, AT399, P399, BREAD250>>
   /\ (Len(item_lines) > 4 => AnyTotalKw(item_lines[5]))
   /\ total # None /\ total * 11 >= 399 * 10)
    => LET cased(w) == IF store \in {"costco", "indian_grocery"}
                       THEN <<W(w, "T")>> ELSE <<U(w)>>
           hdr == Len(lines) - Len(item_lines)
       IN  /\ items = << [name |-> cased("milk"), quantity |-> 1, price |-> 399],
                         [name |-> cased("bread"), quantity |-> 1, price |-> 250] >>
           /\ item_src = << [n |-> hdr + 1, p |-> hdr + 3],
                            [n |-> hdr + 4, p |-> hdr + 4] >>

\* The handler has returned the two items of the four lines, which followed a
\* header line and were followed by TOTAL 10.00.
C1_TwoItemsReturned ==
  /\ pc = "done"
  /\ Len(lines) = 6 /\ item_lines = <<MILK, AT399, P399, BREAD250, TOTAL1000>>
  /\ total = 1000
  /\ Len(items) = 2 /\ items[1].price = 399 /\ items[2].price = 250

---------------------------------------------------------------------------
\* Price sanity (C2)

\* C2: whenever the total is known, every item of the list has a price of at
\* most 1.1 x total; an item priced above that is never in the list.
C2_PriceWithinTotal ==
  total # None => \A n \in 1..Len(items) : items[n].price * 10 <= total * 11

\* The total is 10.00, the parser has read the line MILK 15.00 before any total
\* line, and the record holds no item of 15.00.
C2_OverpricedDropped ==
  /\ pc = "done" /\ total = 1000
  /\ \E n \in 1..Len(item_lines) :
        /\ item_lines[n] = MILK1500
        /\ \A m \in 1..n : ~AnyTotalKw(item_lines[m])
  /\ \A n \in 1..Len(items) : items[n].price # 1500

---------------------------------------------------------------------------
\* Deduplication (C3)

\* C3: after validation no two items of the record have the same (lower-cased
\* name, price), and the record's list is the parsed list restricted to the first
\* occurrence of each such key, each kept as it was parsed, in the parsed order.
C3_FirstOccurrences ==
  pc = "done" =>
    LET key(it) == <<Lower(it.name), it.price>>
        first == {n \in 1..Len(parsed_items) :
                    \A m \in 1..(n - 1) : key(parsed_items[m]) # key(parsed_items[n])}
        nth(a) == CHOOSE n \in first : Cardinality({m \in first : m < n}) = a - 1
    IN  /\ \A a, b \in 1..Len(items) : a # b => key(items[a]) # key(items[b])
        /\ Len(items) = Cardinality(first)
        /\ \A a \in 1..Len(items) : items[a] = parsed_items[nth(a)]

\* Two parsed items whose names differ in casing only, at one price, have become
\* one.
C3_DuplicateMerged ==
  /\ pc = "done"
  /\ Len(parsed_items) = 2 /\ Len(items) = 1
  /\ parsed_items[1].name # parsed_items[2].name
  /\ items[1] = parsed_items[1]

---------------------------------------------------------------------------
\* Keyword priority (C4)

\* C4, as stated: when the receipt has subtotal-keyword, tax-keyword and
\* total-keyword lines (the last matching no subtotal pattern, tax pattern or
\* item-count phrasing) and each of them carries a value on itself, subtotal, tax
\* and total are each the value one of the lines of their own keyword carries.
C4_OwnLineValues ==
  LET own(n) == _find_best_price(lines[n])
      other(n) == AnySubtotalKw(lines[n]) \/ AnyTaxKw(lines[n])
      subs == {n \in 1..Len(lines) : AnySubtotalKw(lines[n])}
      taxes == {n \in 1..Len(lines) : AnyTaxKw(lines[n])}
      tots == {n \in 1..Len(lines) :
                 AnyTotalKw(lines[n]) /\ ~other(n) /\ ~TOTAL_ITEM_COUNT_RE(lines[n])}
  IN  (/\ pc = "done" /\ subs # {} /\ taxes # {} /\ tots # {}
       /\ \A n \in subs \cup taxes \cup tots : own(n) # None)
        => /\ \E n \in subs : subtotal = own(n)
           /\ \E n \in taxes : tax = own(n)
           /\ \E n \in tots : total = own(n)

\* C4, amended: for each of subtotal, tax and total, when the receipt has lines of
\* that keyword (for total: lines that match a total keyword and no subtotal
\* pattern, tax pattern or item-count phrasing) and every one of them carries on
\* itself a value the field accepts (at least 0.01, and below 500 for tax), the
\* field is the value one of those lines carries; and the total's keyword scan
\* never anchors on a line that also matches a subtotal pattern, a tax pattern or
\* an item-count phrasing, nor reads the value from a subtotal or tax line.
C4_KeywordPriority ==
  LET own(n) == _find_best_price(lines[n])
      other(n) == AnySubtotalKw(lines[n]) \/ AnyTaxKw(lines[n])
      subs == {n \in 1..Len(lines) : AnySubtotalKw(lines[n])}
      taxes == {n \in 1..Len(lines) : AnyTaxKw(lines[n])}
      tots == {n \in 1..Len(lines) :
                 AnyTotalKw(lines[n]) /\ ~other(n) /\ ~TOTAL_ITEM_COUNT_RE(lines[n])}
  IN  pc = "done" =>
        /\ (subs # {} /\ \A n \in subs : own(n) >= 1)
             => \E n \in subs : subtotal = own(n) /\ prov.subtotal = [n |-> n, p |-> n]
        /\ (taxes # {} /\ \A n \in taxes : own(n) >= 1 /\ own(n) < 500 * 100)
             => \E n \in taxes : tax = own(n) /\ prov.tax = [n |-> n, p |-> n]
        /\ (tots # {} /\ \A n \in tots : own(n) >= 1)
             => \E n \in tots : total = own(n) /\ prov.total = [n |-> n, p |-> n]
        /\ prov.total.n # 0 => prov.total.n \in tots /\ ~other(prov.total.p)

\* The total was read from a total line that comes after a "sub total" line,
\* which matches a total keyword too; subtotal and tax have their own values.
C4_SubTotalLinePassed ==
  /\ pc = "done"
  /\ \E n \in 1..Len(lines) :
        /\ AnyTotalKw(lines[n]) /\ AnySubtotalKw(lines[n])
        /\ n < prov.total.n
        /\ subtotal = _find_best_price(lines[n])
  /\ prov.total.p = prov.total.n
  /\ tax # None /\ total # subtotal

---------------------------------------------------------------------------
\* Store classification (C5)

\* C5: the store is the first template, in the order costco, walmart, target,
\* indian_grocery, kroger, aldi, trader_joes, whole_foods, heb, one of whose
\* patterns matches within the first 10 lines; when none does, indian_grocery if
\* one of its patterns matches anywhere in the raw text and generic otherwise.
\* The header line WALMART SUPERCENTER #1234 classifies as walmart.
C5_StoreByHeader ==
  (pc = "done" /\ raw_text # <<>>) =>
    LET order == <<"costco", "walmart", "target", "indian_grocery", "kroger",
                   "aldi", "trader_joes", "whole_foods", "heb">>
        first10 == SubSeq(lines, 1, IF Len(lines) < 10 THEN Len(lines) ELSE 10)
        hit == {n \in 1..9 : STORE_PATTERNS(order[n], Flatten(first10))}
    IN  /\ hit # {} => store = order[CHOOSE n \in hit : \A m \in hit : n <= m]
        /\ (hit = {} /\ STORE_PATTERNS("indian_grocery", Flatten(raw_text)))
             => store = "indian_grocery"
        /\ (hit = {} /\ ~STORE_PATTERNS("indian_grocery", Flatten(raw_text)))
             => store = "generic"
        /\ raw_text = <<WALMART>> => store = "walmart"

\* A receipt whose 11th line names Walmart, and no line before it any store, is
\* classified generic.
C5_StoreBelowHeader ==
  /\ pc = "done"
  /\ Len(lines) > 10 /\ STORE_PATTERNS("walmart", lines[11])
  /\ store = "generic"

---------------------------------------------------------------------------
\* Empty input (C6)

\* C6: whenever the text yields no lines (no text at all, or blank lines only),
\* the record has merchant, purchase_date, total, subtotal, tax, savings and
\* currency null, no items, item_count 0 and detected_store "unknown".
C6_NoLinesAllNull ==
  (pc = "done" /\ \A n \in 1..Len(raw_text) : raw_text[n] = <<>>)
    => /\ merchant = <<>> /\ purchase_date = <<>>
       /\ total = None /\ subtotal = None /\ tax = None /\ savings = None
       /\ currency = NoStr
       /\ items = <<>> /\ item_count = 0
       /\ store = "unknown"

\* A text of one blank line has given a record with a currency and a store.
C6_BlankTextRecord ==
  /\ pc = "done"
  /\ raw_text = <<Blank>> /\ lines = <<>>
  /\ currency = "$" /\ store = "generic"

---------------------------------------------------------------------------
\* Monetary fields (C7)

\* C7: each of total, subtotal, tax and savings is null or at least 0.01, in
\* every state of the handler; a field is never zero.
C7_MoneyNullOrPositive ==
  \A v \in {total, subtotal, tax, savings} : v = None \/ v >= 1

\* The receipt has the lines TAX 0.00 and TOTAL 0.00, and tax and total are null.
C7_ZeroValuesAreNull ==
  /\ pc = "done"
  /\ \E n \in 1..Len(lines) : lines[n] = TAX000
  /\ \E n \in 1..Len(lines) : lines[n] = TOTAL000
  /\ tax = None /\ total = None

---------------------------------------------------------------------------
\* Items (C8)

\* C8: every item of the returned list has a quantity of at least 1 and a price above 0,
\* whatever the lines, a count of 0 before the multiplication sign included.
C8_QuantityAndPricePositive ==
  pc = "done" => \A n \in 1..Len(items) : items[n].quantity >= 1 /\ items[n].price > 0

\* The record holds an item of quantity 0, read from the line 0 x 1.50.
C8_ZeroQuantityItem ==
  /\ pc = "done"
  /\ \E n \in 1..Len(items) :
        /\ items[n].quantity = 0
        /\ lines[item_src[n].p] = ZEROX150

---------------------------------------------------------------------------
\* Currency (C9)

---------------------------------------------------------------------------
\* Lookahead (C10)

\* C10: in each of the four extractors, a value found for a keyword line that
\* carries no value itself is read from one of the next three lines, and no line
\* from the one after the keyword line to the one the value is read from matches
\* a keyword of any of the four categories.
C10_LookaheadStopsAtAnyKeyword ==
  pc = "done" =>
    \A f \in {"total", "subtotal", "tax", "savings"} :
      LET n == prov[f].n
          p == prov[f].p
      IN  (n # 0 /\ _find_best_price(lines[n]) = None)
            => /\ n < p /\ p <= n + 3
               /\ \A m \in (n + 1)..p :
                    ~(\/ AnyTotalKw(lines[m]) \/ AnySubtotalKw(lines[m])
                      \/ AnyTaxKw(lines[m]) \/ AnySavingsKw(lines[m]))

\* The subtotal was read past a savings-keyword line.
C10_SubtotalPastSavings ==
  /\ pc = "done"
  /\ prov.subtotal.n # 0
  /\ subtotal # None
  /\ \E m \in (prov.subtotal.n + 1)..(prov.subtotal.p - 1) : AnySavingsKw(lines[m])

\* ---------------------------------------------------------------------------
\* C11: a line that is noise for the detected store supplies no value to the
\* total, subtotal, tax or savings and gives no returned item its name or its
\* price.
C11_NoiseSuppliesNothing ==
  pc = "done" =>
    /\ \A f \in {"total", "subtotal", "tax", "savings"} :
         prov[f].p # 0 => ~_is_noise(lines[prov[f].p], store)
    /\ \A n \in 1..Len(item_src) :
         /\ ~_is_noise(lines[item_src[n].n], store)
         /\ ~_is_noise(lines[item_src[n].p], store)

\* The total was read from a line that is noise for the detected store.
C11_TotalFromNoiseLine ==
  /\ pc = "done"
  /\ total # None
  /\ prov.total.p # 0
  /\ _is_noise(lines[prov.total.p], store)

\* ---------------------------------------------------------------------------
\* C12: an item whose price was last set by a line that is a "qty x unit"
\* pattern and nothing else has quantity qty and price qty times unit.
C12_QtyTimesUnit ==
  pc = "parsed" =>
    \A n \in 1..Len(items) :
      LET l == lines[item_src[n].p]
      IN  (QtyAt(l) = Len(l) /\ QtyGroup(l[1]) >= 1)
            => /\ items[n].quantity = QtyGroup(l[1])
               /\ items[n].price = QtyGroup(l[1]) * _find_best_price(l)

\* An item with quantity 2 or more whose price is the unit price of its
\* "qty x unit" line.
C12_UnitPriceEmitted ==
  /\ pc = "parsed"
  /\ \E n \in 1..Len(items) :
       LET l == lines[item_src[n].p]
       IN  /\ QtyAt(l) = Len(l)
           /\ items[n].quantity = QtyGroup(l[1])
           /\ items[n].quantity >= 2
           /\ items[n].price = _find_best_price(l)

\* ---------------------------------------------------------------------------
\* C13: the item parser ends at the first subtotal or total keyword line, or at
\* the end of the lines when there is none: every item was read from lines
\* before that point, nothing stays pending, and the last item begun before it
\* is in the list when it has a name and a price that pass _finalize_pending.
C13_ClosesAtFirstKeyword ==
  pc = "parsed" =>
    LET off == Len(lines) - Len(item_lines)
        stops == {i \in 1..Len(item_lines) :
                    AnySubtotalKw(item_lines[i]) \/ AnyTotalKw(item_lines[i])}
        k == IF stops = {} THEN Len(item_lines) + 1 ELSE Min(stops)
        names == {i \in 1..(k - 1) : LineClass(item_lines[i], store) \in {"name", "both"}}
        m == Max(names)
        prices == {i \in m..(k - 1) :
                     \/ (i = m /\ LineClass(item_lines[i], store) = "both")
                     \/ (i > m /\ LineClass(item_lines[i], store) = "price")}
        last == Len(items)
    IN  /\ pos = k
        /\ pending_name = <<>> /\ pending_price = None
        /\ Len(item_src) = Len(items)
        /\ \A n \in 1..Len(items) :
             /\ item_src[n].n - off \in 1..(k - 1)
             /\ item_src[n].p - off \in 1..(k - 1)
        /\ (/\ names # {}
            /\ prices # {}
            /\ Finalizes(item_lines[m], _find_best_price(item_lines[Max(prices)]),
                         total, store))
             => /\ last > 0
                /\ item_src[last] = [n |-> m + off, p |-> Max(prices) + off]
                /\ items[last].price = _find_best_price(item_lines[Max(prices)])

\* The parser stopped at a keyword line with the pending item put in the list,
\* and a line after the keyword line carries a name and a price.
C13_ItemAfterKeywordIgnored ==
  /\ pc = "parsed"
  /\ pos < Len(item_lines)
  /\ AnyTotalKw(item_lines[pos])
  /\ Len(items) >= 1
  /\ item_src[Len(items)].p = pos - 1 + (Len(lines) - Len(item_lines))
  /\ \E j \in (pos + 1)..Len(item_lines) : LineClass(item_lines[j], store) = "both"

\* ---------------------------------------------------------------------------
\* C14: while a name is pending, a price-only line replaces the pending price
\* and puts no item in the list; the price of an item in the list is the price
\* of the last price-bearing line from its name line up to the next
\* name-bearing line, keyword line or end of the lines.
C14_LastPriceWins ==
  LET off == Len(lines) - Len(item_lines)
      cls(i) == LineClass(item_lines[i], store)
      priced(a, e) == {i \in a..e : (i = a /\ cls(i) = "both") \/ (i > a /\ cls(i) = "price")}
  IN  /\ (pc = "items" /\ pending_name # <<>>) =>
           LET a == pending_src.n - off
               ps == priced(a, pos - 1)
           IN  /\ \A n \in 1..Len(item_src) : item_src[n].n < pending_src.n
               /\ IF ps = {} THEN pending_price = None
                  ELSE /\ pending_price = _find_best_price(item_lines[Max(ps)])
                       /\ pending_src.p = Max(ps) + off
      /\ pc = "parsed" =>
           \A n \in 1..Len(items) :
             LET a == item_src[n].n - off
                 ends == {i \in (a + 1)..Len(item_lines) : cls(i) \in {"name", "both", "stop"}}
                 e == IF ends = {} THEN Len(item_lines) ELSE Min(ends) - 1
                 ps == priced(a, e)
             IN  /\ ps # {}
                 /\ item_src[n].p = Max(ps) + off
                 /\ items[n].price = _find_best_price(item_lines[Max(ps)])

\* An item whose name was followed by two price-bearing lines with different
\* prices: it has the price of the second.
C14_SecondPriceTaken ==
  /\ pc = "parsed"
  /\ \E n \in 1..Len(items) :
       \E i \in (item_src[n].n + 1)..(item_src[n].p - 1) :
         /\ LineClass(lines[i], store) = "price"
         /\ LineClass(lines[item_src[n].p], store) = "price"
         /\ _find_best_price(lines[i]) # _find_best_price(lines[item_src[n].p])
         /\ items[n].price = _find_best_price(lines[item_src[n].p])

\* ---------------------------------------------------------------------------
\* C15: the total is the amount, of at least 0.01, of the first line in line
\* order that the highest-priority keyword with any accepted line accepts; a
\* lower-priority keyword on an earlier line does not come before it.
C15_KeywordPriorityThenLineOrder ==
  pc \in {"items", "parsed", "done"} =>
    LET has(p) == {i \in 1..Len(lines) : TotalAt(lines, p, i).amt # None}
        kws == {p \in 1..NTotalKw : has(p) # {}}
    IN  IF kws = {} THEN prov.total.n = 0
        ELSE LET r == TotalAt(lines, Min(kws), Min(has(Min(kws))))
             IN  /\ total = r.amt
                 /\ total >= 1
                 /\ prov.total = [n |-> Min(has(Min(kws))), p |-> r.at]

\* The total came from a keyword line below a line of a lower-priority keyword
\* that carries another accepted amount.
C15_LaterLineHigherPriority ==
  /\ pc = "done"
  /\ prov.total.n > 1
  /\ \E p \in 1..NTotalKw, q \in 1..NTotalKw, j \in 1..(prov.total.n - 1) :
       /\ p < q
       /\ TotalAt(lines, p, prov.total.n).amt = total
       /\ TotalAt(lines, p, j).amt = None
       /\ TotalAt(lines, q, j).amt # None
       /\ TotalAt(lines, q, j).amt # total

\* ---------------------------------------------------------------------------
\* C16 as stated: when no total keyword gives the total, the total is the
\* amount of the bottom-most line that is not noise, matches no savings keyword
\* and carries an amount of at least 1.00, and it is null when there is no such
\* line.
C16_BottomMostValue ==
  (pc = "done" /\ prov.total.n = 0) =>
    LET ok == {i \in 1..Len(lines) :
                 /\ ~_is_noise(lines[i], "generic")
                 /\ ~AnySavingsKw(lines[i])
                 /\ _find_best_price(lines[i]) # None
                 /\ _find_best_price(lines[i]) >= 100}
    IN  IF ok = {} THEN total = None
        ELSE total = _find_best_price(lines[Max(ok)])

\* C16 amended: the fallback also passes over the lines that match the
\* item-count phrasing, and the noise it passes over is that of the generic
\* patterns whatever the detected store.
C16_BottomMostValueNotCount ==
  (pc = "done" /\ prov.total.n = 0) =>
    LET ok == {i \in 1..Len(lines) :
                 /\ ~NOISE_PATTERNS(lines[i])
                 /\ ~AnySavingsKw(lines[i])
                 /\ ~TOTAL_ITEM_COUNT_RE(lines[i])
                 /\ _find_best_price(lines[i]) # None
                 /\ _find_best_price(lines[i]) >= 100}
    IN  IF ok = {} THEN total = None /\ prov.total.p = 0
        ELSE /\ total = _find_best_price(lines[Max(ok)])
             /\ prov.total.p = Max(ok)

\* The fallback gave the total from a line above an item-count line that
\* carries an amount of at least 1.00.
C16_CountLinePassedOver ==
  /\ pc = "done"
  /\ prov.total.n = 0
  /\ total # None
  /\ \E j \in (prov.total.p + 1)..Len(lines) :
       /\ TOTAL_ITEM_COUNT_RE(lines[j])
       /\ ~AnySavingsKw(lines[j])
       /\ ~NOISE_PATTERNS(lines[j])
       /\ _find_best_price(lines[j]) # None
       /\ _find_best_price(lines[j]) >= 100
       /\ _find_best_price(lines[j]) # total

\* ---------------------------------------------------------------------------
\* C17: a trailing single letter of a name stays in the item's name when it is
\* not a tax-suffix letter of the detected store's own template; under the
\* generic template every trailing letter stays.
C17_ForeignSuffixKept ==
  pc = "parsed" =>
    \A n \in 1..Len(items) :
      LET l == lines[item_src[n].n]
          z == l[Len(l)]
      IN  (/\ Len(l) >= 2
           /\ \A a \in 1..Len(l) : l[a].k = "w"
           /\ Len(z.s) = 1
           /\ z.s \notin TemplateSuffix(store))
            => Lower(items[n].name) = Lower(l)

\* Under the generic template an item lost the trailing letter T of its name.
C17_GenericSuffixCut ==
  /\ pc = "parsed"
  /\ store = "generic"
  /\ \E n \in 1..Len(items) :
       LET l == lines[item_src[n].n]
       IN  /\ Len(l) = 2
           /\ l[2] = U("t")
           /\ items[n].name = <<l[1]>>

\* ---------------------------------------------------------------------------
\* C18: every item of the list has a cleaned name of at least 2 characters of
\* which, blanks left out, at least a quarter are letters.
C18_NameMostlyLetters ==
  pc = "parsed" =>
    \A n \in 1..Len(items) :
      /\ TextLen(items[n].name) >= 2
      /\ 4 * AlphaCount(items[n].name) >= TextChars(items[n].name)

\* An item in the list whose name has fewer letters than a quarter of its
\* characters, blanks left out.
C18_DigitNameEmitted ==
  /\ pc = "parsed"
  /\ \E n \in 1..Len(items) :
       /\ TextLen(items[n].name) >= 2
       /\ 4 * AlphaCount(items[n].name) < TextChars(items[n].name)

\* ---------------------------------------------------------------------------
\* C19: the parser is given the lines without the first 2 of a receipt of more
\* than 6 lines, without the first of a receipt of 3 to 6 lines, and all the
\* lines of a shorter one; no item has its name or its price from a withheld
\* line.
C19_HeaderWithheld ==
  pc \in {"items", "parsed", "done"} =>
    LET n == Len(lines)
        w == IF n > 6 THEN 2 ELSE IF n >= 3 THEN 1 ELSE 0
    IN  /\ item_lines = SubSeq(lines, w + 1, n)
        /\ pending_src.n # 0 => pending_src.n > w
        /\ pending_src.p # 0 => pending_src.p > w
        /\ \A k \in 1..Len(item_src) : item_src[k].n > w /\ item_src[k].p > w

\* A receipt of more than 6 lines whose second line carries a name and a price:
\* no item comes from it, while the store was detected on the first line and
\* items were read further down.
C19_SecondLineWithheld ==
  /\ pc = "done"
  /\ Len(lines) > 6
  /\ LineClass(lines[2], store) = "both"
  /\ store # "generic"
  /\ STORE_PATTERNS(store, lines[1])
  /\ items # <<>>
  /\ \A k \in 1..Len(item_src) : item_src[k].n > 2

\* ---------------------------------------------------------------------------
\* C20: prices go forward only. An item's price line is its name line or a
\* later line with no name-bearing line in between; no price is pending while
\* no name is; a name line with no price on it and no price line before the
\* next name-bearing line, keyword line or end gives no item.
C20_PricesGoForward ==
  LET off == Len(lines) - Len(item_lines)
      cls(i) == LineClass(item_lines[i], store)
  IN  /\ pc \in {"items", "parsed"} =>
           /\ pending_name = <<>> => pending_price = None
           /\ \A n \in 1..Len(item_src) :
                /\ item_src[n].n # 0
                /\ item_src[n].n <= item_src[n].p
                /\ \A i \in (item_src[n].n - off + 1)..(item_src[n].p - off) :
                     cls(i) \notin {"name", "both"}
      /\ pc = "parsed" =>
           \A a \in 1..Len(item_lines) :
             LET ends == {i \in (a + 1)..Len(item_lines) : cls(i) \in {"name", "both", "stop"}}
                 e == IF ends = {} THEN Len(item_lines) ELSE Min(ends) - 1
             IN  (/\ cls(a) = "name"
                  /\ \A i \in (a + 1)..e : cls(i) # "price")
                   => \A n \in 1..Len(item_src) : item_src[n].n # a + off

\* A price-only line came first, then a name without a price, then a name with
\* its price: the only item is the last line's.
C20_EarlyPriceUnused ==
  /\ pc = "parsed"
  /\ Len(item_lines) = 3
  /\ LineClass(item_lines[1], store) = "price"
  /\ LineClass(item_lines[2], store) = "name"
  /\ LineClass(item_lines[3], store) = "both"
  /\ Len(items) = 1
  /\ item_src[1].n = 3 + (Len(lines) - Len(item_lines))

=============================================================================
